---- MODULE Spec2Model ----
(***************************************************************************)
(* Model of src/job/http.go of db1000n: the fastHTTPJob request loop with  *)
(* its backoff controller, its two traffic writers and its cancellation    *)
(* scope, and the single-shot singleRequestJob with its response snapshot. *)
(* One run of the model executes one of the two jobs.                      *)
(*                                                                         *)
(* The loop is one process whose position is pc; the two traffic writers   *)
(* (started with `go` at lines 138 and 141) are two further processes.     *)
(* The backoff controller, the Next gate, utils.Sleep and the metrics      *)
(* writer live in packages outside this source unit and are modelled from  *)
(* their contracts.                                                        *)
(***************************************************************************)
EXTENDS Integers, Sequences, FiniteSets, TLC

\* ------------------------------------------------------------------ bounds
\* most iterations the Next gate admits in one run of the model
MaxIter == 4

\* latest reading of the wall clock while a response snapshot is built
MaxClock == 2

\* ------------------------------------------------------------ input sets
Nil == [kind |-> "nil"]

\* payload sizes http.InitRequest may return for a materialized request
PayloadSizes == {1, 2}

\* backoff settings a job or the global configuration may carry
ScenarioBackoff == [kind |-> "cfg", min |-> 100, max |-> 3200, factor |-> 2]
TightBackoff == [kind |-> "cfg", min |-> 100, max |-> 500, factor |-> 3]

\* the jobs the model runs: one with its own backoff settings and no
\* iteration budget (Count 0), delivered in an encrypted configuration, and
\* one with the global settings and a budget, delivered in the clear
JobConfigs == {[BackoffConfig |-> ScenarioBackoff, Count |-> 0, Encrypted |-> TRUE],
               [BackoffConfig |-> Nil, Count |-> 3, Encrypted |-> FALSE]}

\* the two job functions of this file
Jobs == {"fast", "single"}

\* errors client.Do may return
SendErrors == {"timeout", "refused"}

\* fasthttp.CookieExpireUnlimited
CookieExpireUnlimited == -1

\* a response as fasthttp hands it over: the header lines in the order
\* VisitAll walks them (one Set-Cookie line per cookie, keys may repeat) and
\* the cookies in the order VisitAllCookie walks them; raw is the cookie
\* line, parses tells whether Cookie.ParseBytes accepts it
EmptyResponse == [status |-> 200, body |-> "", headers |-> <<>>, cookies |-> <<>>]
Responses == {
    [status |-> 200, body |-> "hello",
     headers |-> << <<"Content-Type", "text/plain">>,
                    <<"Set-Cookie", "b=2; expires=1">> >>,
     cookies |-> << [key |-> "b", raw |-> "b=2; expires=1", parses |-> TRUE,
                     value |-> "2", expire |-> 1] >>],
    [status |-> 200, body |-> "hi",
     headers |-> << <<"Set-Cookie", "a=1">>, <<"Set-Cookie", "e=5; expires=2">> >>,
     cookies |-> << [key |-> "a", raw |-> "a=1", parses |-> TRUE,
                     value |-> "1", expire |-> CookieExpireUnlimited],
                    [key |-> "e", raw |-> "e=5; expires=2", parses |-> TRUE,
                     value |-> "5", expire |-> 2] >>],
    [status |-> 404, body |-> "",
     headers |-> << <<"Server", "x">>,
                    <<"Set-Cookie", "c">>, <<"Set-Cookie", "d=4; expires=2">> >>,
     cookies |-> << [key |-> "c", raw |-> "c", parses |-> FALSE,
                     value |-> "", expire |-> CookieExpireUnlimited],
                    [key |-> "d", raw |-> "d=4; expires=2", parses |-> TRUE,
                     value |-> "4", expire |-> 2] >>] }

\* log records, by the call that writes them and the values it is handed
AttackingRecord == [site |-> "attacking", fields |-> {"path"}]
SingleRequestRecord == [site |-> "single_request", fields |-> {"path"}]
SendErrorRecord == [site |-> "send_error", fields |-> {"err", "args"}]
CookieExpiredRecord == [site |-> "cookie_expired", fields |-> {"cookie"}]

\* the pooled fasthttp objects
Pooled == {"req", "resp"}

Streams == {"Traffic", "ProcessedTraffic"}

VARIABLES
    pc,              \* position of fastHTTPJob
    ret,             \* the error fastHTTPJob returned: "none" while running
    parentCancelled, \* the caller's ctx is done
    ownCancelled,    \* cancel() of the derived ctx (line 125) was called
    jobBackoff,      \* jobConfig.BackoffConfig (Nil when unset)
    globalBackoff,   \* globalConfig.Backoff
    jobCount,        \* jobConfig.Count
    iter,            \* iterations admitted by jobConfig.Next
    backoffCfg,      \* configuration held by backoffController
    timeout,         \* backoffController's current timeout (0: not built)
    dataSize,        \* dataSize of the current iteration (0 outside the loop body)
    writer,          \* state of each traffic writer's Update goroutine
    pending,         \* bytes added to a writer since its last flush
    flushed,         \* bytes a writer has flushed to the metrics sink
    \* ---- history of the run, read by the properties only
    materialized,    \* number of iterations whose request was materialized
    sizeSum,         \* sum of the dataSize of the materialized iterations
    okSum,           \* sum of the dataSize of the iterations whose send succeeded
    sent,            \* outcome of every send that returned
    sendsStarted,    \* number of sends invoked
    attemptAdds,     \* number of trafficMonitor.Add calls
    added,           \* total handed to each stream's Add
    deliveredIters,  \* iterations for which processedTrafficMonitor.Add ran
    runWaits,        \* waits slept since the last successful send
    tplFailed,       \* request-template evaluation failed
    \* ---- both jobs
    job,             \* which job function runs
    encrypted,       \* isInEncryptedContext(ctx)
    client,          \* http.NewClient was called
    logs,            \* records written with log.Printf or handed to logger
    httpStat,        \* metrics.IncHTTP counters, by status
    pool,            \* state of each pooled object: "none", "acquired", "released"
    released,        \* number of Release calls per pooled object
    misuse,          \* a pooled object was used while not acquired
    \* ---- singleRequestJob
    direct,          \* totals written with metrics.Default.Write, by stream
    strace,          \* order of the metric writes, the send and its return
    serr,            \* err of the single send ("nil": none, "none": not sent)
    resp,            \* the fasthttp response object
    clock,           \* time.Now()
    headers,         \* the headers map being loaded
    cookies,         \* the cookies map being loaded
    cookieIdx,       \* cookies VisitAllCookie has walked
    visitAt,         \* the clock reading taken for each cookie walked
    result           \* the data singleRequestJob returned

ctl == <<pc, ret, parentCancelled, ownCancelled, iter>>
cfg == <<jobBackoff, globalBackoff, jobCount, job, encrypted>>
eff == <<client, logs, httpStat, pool, released, misuse>>
sgl == <<direct, strace, serr, resp, clock, headers, cookies, cookieIdx, visitAt, result>>
bo == <<backoffCfg, timeout, runWaits>>
wr == <<writer, pending, flushed, added>>
rest == <<materialized, sizeSum, okSum, sent, sendsStarted, attemptAdds,
          deliveredIters, tplFailed>>
hist == <<dataSize, rest>>
vars == <<ctl, cfg, bo, wr, hist, eff, sgl>>

\* ---------------------------------------------------------------- helpers
MinOf(a, b) == IF a <= b THEN a ELSE b

\* variant: the job's ctx is built from a fresh background context, so the
\* caller's cancellation never reaches it
CtxDoneDetached == ownCancelled

\* ctx.Done() of the ctx derived at line 125: done when the parent is done
\* or when the job's own cancel() ran
CtxDone == parentCancelled \/ ownCancelled

\* utils.NonNilBackoffConfigOrDefault: the job's own setting wins
NonNilBackoffConfigOrDefault(j, g) == IF j # Nil THEN j ELSE g

\* BackoffController.Increment: a longer wait, capped at the maximum
Increment(c, t) == MinOf(t * c.factor, c.max)

\* BackoffController.Reset: back to the baseline
Reset(c) == c.min

\* BackoffController.GetTimeout
GetTimeout(t) == t

\* Writer.Add: accumulate n bytes on stream s
WriterAdd(s, n) ==
    /\ pending' = [pending EXCEPT ![s] = @ + n]
    /\ added' = [added EXCEPT ![s] = @ + n]

\* isInEncryptedContext(ctx)
isInEncryptedContext == encrypted

\* a step that hands req to InitRequest or to the client
UseReq == misuse' = (misuse \/ pool["req"] # "acquired")

\* fasthttp.AcquireRequest / AcquireResponse for the objects in objs
Acquire(objs) == pool' = [o \in Pooled |-> IF o \in objs THEN "acquired" ELSE pool[o]]

\* the deferred fasthttp.ReleaseRequest / ReleaseResponse for the objects in objs
Release(objs) ==
    /\ pool' = [o \in Pooled |-> IF o \in objs THEN "released" ELSE pool[o]]
    /\ released' = [o \in Pooled |-> IF o \in objs THEN released[o] + 1 ELSE released[o]]

\* metrics.IncHTTP(host, method, status)
IncHTTP(st) == httpStat' = [httpStat EXCEPT ![st] = @ + 1]

\* variant: the outcome counter is bumped as a success whatever client.Do returned
SendFastHTTPRequestCountsSuccess(doErr) == [err |-> doErr, status |-> "success"]

\* lines 197-207, sendFastHTTPRequest: the error client.Do returned
\* ("nil": none) is handed back as it is, and it selects the counter
SendFastHTTPRequest(doErr) ==
    [err |-> doErr, status |-> IF doErr # "nil" THEN "fail" ELSE "success"]

\* ------------------------------------------------------------------- Init
Init ==
    /\ pc = "start"
    /\ ret = "none"
    /\ parentCancelled = FALSE
    /\ ownCancelled = FALSE
    /\ \E j \in JobConfigs :
          /\ jobBackoff = j.BackoffConfig
          /\ jobCount = j.Count
          /\ encrypted = j.Encrypted
    /\ job \in Jobs
    /\ globalBackoff = TightBackoff
    /\ iter = 0
    /\ backoffCfg = Nil
    /\ timeout = 0
    /\ dataSize = 0
    /\ writer = [s \in Streams |-> "idle"]
    /\ pending = [s \in Streams |-> 0]
    /\ flushed = [s \in Streams |-> 0]
    /\ materialized = 0
    /\ sizeSum = 0
    /\ okSum = 0
    /\ sent = <<>>
    /\ sendsStarted = 0
    /\ attemptAdds = 0
    /\ added = [s \in Streams |-> 0]
    /\ deliveredIters = {}
    /\ runWaits = <<>>
    /\ tplFailed = FALSE
    /\ client = FALSE
    /\ logs = {}
    /\ httpStat = [st \in {"success", "fail"} |-> 0]
    /\ pool = [o \in Pooled |-> "none"]
    /\ released = [o \in Pooled |-> 0]
    /\ misuse = FALSE
    /\ direct = [s \in Streams |-> 0]
    /\ strace = <<>>
    /\ serr = "none"
    /\ resp = EmptyResponse
    /\ clock = 1
    /\ headers = <<>>
    /\ cookies = <<>>
    /\ cookieIdx = 0
    /\ visitAt = <<>>
    /\ result = Nil

\* ---------------------------------------------------------------- actions
\* the caller's context is cancelled
Cancel ==
    /\ ~parentCancelled
    /\ parentCancelled' = TRUE
    /\ UNCHANGED <<pc, ret, ownCancelled, iter, cfg, sgl, eff, bo, wr, hist>>

\* variant: the writers are started before the configuration is resolved
ConfigFailAfterWriters ==
    /\ job = "fast"
    /\ pc = "start"
    /\ pc' = "done"
    /\ ret' = "config_error"
    /\ ownCancelled' = TRUE
    /\ writer' = [s \in Streams |-> "running"]
    /\ UNCHANGED <<parentCancelled, iter, cfg, sgl, eff, bo, pending, flushed, added, hist>>

\* lines 128-131: getHTTPJobConfigs fails; the deferred cancel() runs
ConfigFail ==
    /\ job = "fast"
    /\ pc = "start"
    /\ pc' = "done"
    /\ ret' = "config_error"
    /\ ownCancelled' = TRUE
    /\ UNCHANGED <<parentCancelled, iter, cfg, sgl, eff, bo, wr, hist>>

\* lines 128-148: configuration resolved, backoff controller and client
\* built, both writers started
Initialize ==
    /\ job = "fast"
    /\ pc = "start"
    /\ pc' = "next"
    /\ backoffCfg' = NonNilBackoffConfigOrDefault(jobBackoff, globalBackoff)
    /\ timeout' = backoffCfg'.min
    /\ writer' = [s \in Streams |-> "running"]
    /\ client' = TRUE
    /\ Acquire({"req"})
    /\ logs' = IF isInEncryptedContext THEN logs ELSE logs \cup {AttackingRecord}
    /\ UNCHANGED <<httpStat, released, misuse>>
    /\ UNCHANGED <<ret, parentCancelled, ownCancelled, iter, cfg, sgl, runWaits,
                   pending, flushed, added, hist>>

\* jobConfig.Next(ctx): FALSE once ctx is done or the budget is used up
NextAllows == ~CtxDone /\ (jobCount = 0 \/ iter < jobCount)

\* line 150, gate open: another iteration starts
NextTrue ==
    /\ pc = "next"
    /\ NextAllows
    /\ iter < MaxIter
    /\ iter' = iter + 1
    /\ pc' = "template"
    /\ UNCHANGED <<ret, parentCancelled, ownCancelled, cfg, sgl, eff, bo, wr, hist>>

\* variant: the loop's exit reports ctx.Err() when the context is done
NextFalseReturnsCtxErr ==
    /\ pc = "next"
    /\ ~NextAllows
    /\ pc' = "done"
    /\ ret' = IF CtxDone THEN "ctx_error" ELSE "nil"
    /\ ownCancelled' = TRUE
    /\ Release({"req"})
    /\ UNCHANGED <<client, logs, httpStat, misuse>>
    /\ UNCHANGED <<parentCancelled, iter, cfg, sgl, bo, wr, hist>>

\* variant: no deferred cancel(), the derived ctx outlives the job
NextFalseKeepsScope ==
    /\ pc = "next"
    /\ ~NextAllows
    /\ pc' = "done"
    /\ ret' = "nil"
    /\ Release({"req"})
    /\ UNCHANGED <<client, logs, httpStat, misuse>>
    /\ UNCHANGED <<parentCancelled, ownCancelled, iter, cfg, sgl, bo, wr, hist>>

\* lines 150, 169: gate closed; return nil, nil and the deferred cancel()
NextFalse ==
    /\ pc = "next"
    /\ ~NextAllows
    /\ pc' = "done"
    /\ ret' = "nil"
    /\ ownCancelled' = TRUE
    /\ Release({"req"})
    /\ UNCHANGED <<client, logs, httpStat, misuse>>
    /\ UNCHANGED <<parentCancelled, iter, cfg, sgl, bo, wr, hist>>

\* lines 151-156: the template evaluates and decodes; InitRequest yields
\* the payload size n
Materialize(n) ==
    /\ pc = "template"
    /\ dataSize' = n
    /\ materialized' = materialized + 1
    /\ sizeSum' = sizeSum + n
    /\ pc' = "add"
    /\ UseReq
    /\ UNCHANGED <<client, logs, httpStat, pool, released>>
    /\ UNCHANGED <<ret, parentCancelled, ownCancelled, iter, cfg, sgl, bo, wr, okSum,
                   sent, sendsStarted, attemptAdds, deliveredIters, tplFailed>>

\* variant: a template failure is skipped over and the loop carries on
TemplateFailRetried ==
    /\ pc = "template"
    /\ tplFailed' = TRUE
    /\ pc' = "next"
    /\ UNCHANGED <<ret, parentCancelled, ownCancelled, iter, cfg, sgl, eff, bo, wr,
                   dataSize, materialized, sizeSum, okSum, sent, sendsStarted, attemptAdds, deliveredIters>>

\* variant: the early return skips the release of the pooled request
TemplateFailLeaks ==
    /\ pc = "template"
    /\ tplFailed' = TRUE
    /\ pc' = "done"
    /\ ret' = "template_error"
    /\ ownCancelled' = TRUE
    /\ UNCHANGED <<parentCancelled, iter, cfg, sgl, eff, bo, wr,
                   dataSize, materialized, sizeSum, okSum, sent, sendsStarted, attemptAdds, deliveredIters>>

\* lines 152-154: template evaluation or decoding fails; the error is
\* returned and the deferred cancel() runs
TemplateFail ==
    /\ pc = "template"
    /\ tplFailed' = TRUE
    /\ pc' = "done"
    /\ ret' = "template_error"
    /\ ownCancelled' = TRUE
    /\ Release({"req"})
    /\ UNCHANGED <<client, logs, httpStat, misuse>>
    /\ UNCHANGED <<parentCancelled, iter, cfg, sgl, bo, wr,
                   dataSize, materialized, sizeSum, okSum, sent, sendsStarted, attemptAdds, deliveredIters>>

\* variant: the attempted size is handed to the delivered-traffic writer
AddAttemptedConflated ==
    /\ pc = "add"
    /\ WriterAdd("ProcessedTraffic", dataSize)
    /\ attemptAdds' = attemptAdds + 1
    /\ pc' = "send"
    /\ UNCHANGED <<ret, parentCancelled, ownCancelled, iter, cfg, sgl, eff, bo, writer, flushed,
                   dataSize, materialized, sizeSum, okSum, sent, sendsStarted, deliveredIters, tplFailed>>

\* line 158: trafficMonitor.Add(dataSize)
AddAttempted ==
    /\ pc = "add"
    /\ WriterAdd("Traffic", dataSize)
    /\ attemptAdds' = attemptAdds + 1
    /\ pc' = "send"
    /\ UNCHANGED <<ret, parentCancelled, ownCancelled, iter, cfg, sgl, eff, bo, writer, flushed,
                   dataSize, materialized, sizeSum, okSum, sent, sendsStarted, deliveredIters, tplFailed>>

\* line 160: sendFastHTTPRequest is invoked
SendStart ==
    /\ pc = "send"
    /\ sendsStarted' = sendsStarted + 1
    /\ pc' = "sending"
    /\ UseReq
    /\ UNCHANGED <<client, logs, httpStat, pool, released>>
    /\ UNCHANGED <<ret, parentCancelled, ownCancelled, iter, cfg, sgl, bo, wr,
                   dataSize, materialized, sizeSum, okSum, sent, attemptAdds, deliveredIters, tplFailed>>

\* line 160 -> 163: the send returned nil
SendOk ==
    /\ pc = "sending"
    /\ sent' = Append(sent, "ok")
    /\ okSum' = okSum + dataSize
    /\ pc' = "deliver"
    /\ IncHTTP(SendFastHTTPRequest("nil").status)
    /\ UNCHANGED <<client, logs, pool, released, misuse>>
    /\ UNCHANGED <<ret, parentCancelled, ownCancelled, iter, cfg, sgl, bo, wr,
                   dataSize, materialized, sizeSum, sendsStarted, attemptAdds, deliveredIters, tplFailed>>

\* variant: no else branch, a failed send falls through to the delivered add
SendFailFallsThrough ==
    /\ pc = "sending"
    /\ sent' = Append(sent, "fail")
    /\ timeout' = Increment(backoffCfg, timeout)
    /\ runWaits' = Append(runWaits, GetTimeout(timeout'))
    /\ pc' = "deliver"
    /\ \E e \in SendErrors : IncHTTP(SendFastHTTPRequest(e).status)
    /\ logs' = logs \cup {SendErrorRecord}
    /\ UNCHANGED <<client, pool, released, misuse>>
    /\ UNCHANGED <<ret, parentCancelled, ownCancelled, iter, cfg, sgl, backoffCfg, wr,
                   dataSize, materialized, sizeSum, okSum, sendsStarted, attemptAdds, deliveredIters, tplFailed>>

\* variant: the timeout is read before the controller is incremented
SendFailSleepsThenIncrements ==
    /\ pc = "sending"
    /\ sent' = Append(sent, "fail")
    /\ timeout' = Increment(backoffCfg, timeout)
    /\ runWaits' = Append(runWaits, GetTimeout(timeout))
    /\ pc' = "sleep"
    /\ \E e \in SendErrors : IncHTTP(SendFastHTTPRequest(e).status)
    /\ logs' = logs \cup {SendErrorRecord}
    /\ UNCHANGED <<client, pool, released, misuse>>
    /\ UNCHANGED <<ret, parentCancelled, ownCancelled, iter, cfg, sgl, backoffCfg, wr,
                   dataSize, materialized, sizeSum, okSum, sendsStarted, attemptAdds, deliveredIters, tplFailed>>

\* variant: a failed send is returned as the job's error
SendFailAborts ==
    /\ pc = "sending"
    /\ sent' = Append(sent, "fail")
    /\ pc' = "done"
    /\ ret' = "send_error"
    /\ ownCancelled' = TRUE
    /\ \E e \in SendErrors : IncHTTP(SendFastHTTPRequest(e).status)
    /\ Release({"req"})
    /\ UNCHANGED <<client, logs, misuse>>
    /\ UNCHANGED <<parentCancelled, iter, cfg, sgl, bo, wr,
                   dataSize, materialized, sizeSum, okSum, sendsStarted, attemptAdds, deliveredIters, tplFailed>>

\* lines 160-162: the send returned an error; it is logged, the backoff is
\* incremented and the loop starts sleeping for the new timeout
SendFail ==
    /\ pc = "sending"
    /\ sent' = Append(sent, "fail")
    /\ timeout' = Increment(backoffCfg, timeout)
    /\ runWaits' = Append(runWaits, GetTimeout(timeout'))
    /\ pc' = "sleep"
    /\ \E e \in SendErrors : IncHTTP(SendFastHTTPRequest(e).status)
    /\ logs' = logs \cup {SendErrorRecord}
    /\ UNCHANGED <<client, pool, released, misuse>>
    /\ UNCHANGED <<ret, parentCancelled, ownCancelled, iter, cfg, sgl, backoffCfg, wr,
                   dataSize, materialized, sizeSum, okSum, sendsStarted, attemptAdds, deliveredIters, tplFailed>>

\* line 162: utils.Sleep returns because its timer fired
SleepElapsed ==
    /\ pc = "sleep"
    /\ pc' = "next"
    /\ dataSize' = 0
    /\ UNCHANGED <<ret, parentCancelled, ownCancelled, iter, cfg, sgl, eff, bo, wr, rest>>

\* utils.Sleep's wait on ctx.Done(): the sleep can be cut short once ctx is done
SleepInterruptible == CtxDone

\* variant: an interrupted sleep continues with the next iteration without
\* asking the gate
SleepInterruptedContinues ==
    /\ pc = "sleep"
    /\ SleepInterruptible
    /\ iter < MaxIter
    /\ iter' = iter + 1
    /\ pc' = "template"
    /\ UNCHANGED <<ret, parentCancelled, ownCancelled, cfg, sgl, eff, bo, wr, hist>>

\* line 162: utils.Sleep returns because ctx is done
SleepInterrupted ==
    /\ pc = "sleep"
    /\ SleepInterruptible
    /\ pc' = "next"
    /\ dataSize' = 0
    /\ UNCHANGED <<ret, parentCancelled, ownCancelled, iter, cfg, sgl, eff, bo, wr, rest>>

\* variant: the delivered size is handed to the attempted-traffic writer
AddDeliveredToTraffic ==
    /\ pc = "deliver"
    /\ WriterAdd("Traffic", dataSize)
    /\ deliveredIters' = deliveredIters \cup {iter}
    /\ pc' = "reset"
    /\ UNCHANGED <<ret, parentCancelled, ownCancelled, iter, cfg, sgl, eff, bo, writer, flushed,
                   dataSize, materialized, sizeSum, okSum, sent, sendsStarted, attemptAdds, tplFailed>>

\* line 164: processedTrafficMonitor.Add(dataSize)
AddDelivered ==
    /\ pc = "deliver"
    /\ WriterAdd("ProcessedTraffic", dataSize)
    /\ deliveredIters' = deliveredIters \cup {iter}
    /\ pc' = "reset"
    /\ UNCHANGED <<ret, parentCancelled, ownCancelled, iter, cfg, sgl, eff, bo, writer, flushed,
                   dataSize, materialized, sizeSum, okSum, sent, sendsStarted, attemptAdds, tplFailed>>

\* variant: a success lowers the timeout by one step instead of resetting it
ResetBackoffDecays ==
    /\ pc = "reset"
    /\ timeout' = IF timeout \div backoffCfg.factor < backoffCfg.min
                  THEN backoffCfg.min ELSE timeout \div backoffCfg.factor
    /\ runWaits' = <<>>
    /\ pc' = "next"
    /\ dataSize' = 0
    /\ UNCHANGED <<ret, parentCancelled, ownCancelled, iter, cfg, sgl, eff, backoffCfg, wr, rest>>

\* variant: the loop sleeps at the end of every iteration
ResetBackoffThenSleeps ==
    /\ pc = "reset"
    /\ timeout' = Reset(backoffCfg)
    /\ runWaits' = <<>>
    /\ pc' = "sleep"
    /\ dataSize' = 0
    /\ UNCHANGED <<ret, parentCancelled, ownCancelled, iter, cfg, sgl, eff, backoffCfg, wr, rest>>

\* line 165: backoffController.Reset()
ResetBackoff ==
    /\ pc = "reset"
    /\ timeout' = Reset(backoffCfg)
    /\ runWaits' = <<>>
    /\ pc' = "next"
    /\ dataSize' = 0
    /\ UNCHANGED <<ret, parentCancelled, ownCancelled, iter, cfg, sgl, eff, backoffCfg, wr, rest>>

\* variant: the accumulator is swapped out but the delta never reaches the sink
WriterTickDropsDelta(s) ==
    /\ writer[s] = "running"
    /\ pending[s] > 0
    /\ pending' = [pending EXCEPT ![s] = 0]
    /\ UNCHANGED <<ctl, cfg, sgl, eff, bo, writer, flushed, added, hist>>

\* Writer.Update, timer tick: the accumulator is swapped out and flushed
WriterTick(s) ==
    /\ writer[s] = "running"
    /\ pending[s] > 0
    /\ flushed' = [flushed EXCEPT ![s] = @ + pending[s]]
    /\ pending' = [pending EXCEPT ![s] = 0]
    /\ UNCHANGED <<ctl, cfg, sgl, eff, bo, writer, added, hist>>

\* Writer.Update, ctx done: the goroutine returns
WriterStop(s) ==
    /\ writer[s] = "running"
    /\ CtxDone
    /\ writer' = [writer EXCEPT ![s] = "stopped"]
    /\ UNCHANGED <<ctl, cfg, sgl, eff, bo, pending, flushed, added, hist>>
\* ------------------------------------------------------ singleRequestJob
\* a step that reads the response object
UseResp == misuse' = (misuse \/ pool["resp"] # "acquired")

\* m[key] = value on a Go map
MapSet(m, key, value) ==
    [k \in DOMAIN m \cup {key} |-> IF k = key THEN value ELSE m[k]]

\* lines 99-103, headerLoaderFunc: the callback stores the value under its key
HeaderLoader(m, key, value) == MapSet(m, key, value)

\* line 85, resp.Header.VisitAll(headerLoaderFunc(headers)) over the lines hs
RECURSIVE VisitAll(_, _)
VisitAll(m, hs) ==
    IF hs = <<>> THEN m
    ELSE VisitAll(HeaderLoader(m, hs[1][1], hs[1][2]), Tail(hs))

\* variant: a cookie that expires at the very instant of the reading is dropped
CookieKeptStrict(c, now) ==
    /\ c.parses
    /\ ~(c.expire # CookieExpireUnlimited /\ c.expire <= now)

\* lines 110-118, cookieLoaderFunc: the cookie is stored unless it does not
\* parse or its expiry is limited and before now
CookieKept(c, now) ==
    /\ c.parses
    /\ ~(c.expire # CookieExpireUnlimited /\ c.expire < now)

\* lines 53-56: getHTTPJobConfigs fails; the deferred cancel() runs
SingleConfigFail ==
    /\ job = "single"
    /\ pc = "start"
    /\ pc' = "done"
    /\ ret' = "config_error"
    /\ ownCancelled' = TRUE
    /\ UNCHANGED <<parentCancelled, iter, cfg, bo, wr, hist, eff, sgl>>

\* lines 58-61: the request template does not decode; the error is returned
SingleTemplateFail ==
    /\ job = "single"
    /\ pc = "start"
    /\ pc' = "done"
    /\ ret' = "template_error"
    /\ ownCancelled' = TRUE
    /\ UNCHANGED <<parentCancelled, iter, cfg, bo, wr, hist, eff, sgl>>

\* lines 53-73: configuration and request resolved, client built, request
\* and response acquired, the request logged outside the encrypted context
SinglePrepare ==
    /\ job = "single"
    /\ pc = "start"
    /\ pc' = "s_init"
    /\ client' = TRUE
    /\ Acquire({"req", "resp"})
    /\ logs' = IF isInEncryptedContext THEN logs ELSE logs \cup {SingleRequestRecord}
    /\ UNCHANGED <<ret, parentCancelled, ownCancelled, iter, cfg, bo, wr, hist,
                   httpStat, released, misuse, sgl>>

\* lines 75-77: InitRequest yields the payload size n, which is written to
\* the Traffic metric
SingleInitRequest(n) ==
    /\ pc = "s_init"
    /\ pc' = "s_send"
    /\ dataSize' = n
    /\ UseReq
    /\ direct' = [direct EXCEPT !["Traffic"] = @ + n]
    /\ strace' = Append(strace, "write:Traffic")
    /\ UNCHANGED <<ret, parentCancelled, ownCancelled, iter, cfg, bo, wr, rest,
                   client, logs, httpStat, pool, released,
                   serr, resp, clock, headers, cookies, cookieIdx, visitAt, result>>

\* line 79: sendFastHTTPRequest is invoked
SingleSendStart ==
    /\ pc = "s_send"
    /\ pc' = "s_sending"
    /\ UseReq
    /\ strace' = Append(strace, "send")
    /\ UNCHANGED <<ret, parentCancelled, ownCancelled, iter, cfg, bo, wr, hist,
                   client, logs, httpStat, pool, released,
                   direct, serr, resp, clock, headers, cookies, cookieIdx, visitAt, result>>

\* line 79: the send returned nil and filled resp with r
SingleSendOk(r) ==
    /\ pc = "s_sending"
    /\ pc' = "s_processed"
    /\ serr' = SendFastHTTPRequest("nil").err
    /\ IncHTTP(SendFastHTTPRequest("nil").status)
    /\ resp' = r
    /\ strace' = Append(strace, "returned:nil")
    /\ UNCHANGED <<ret, parentCancelled, ownCancelled, iter, cfg, bo, wr, hist,
                   client, logs, pool, released, misuse,
                   direct, clock, headers, cookies, cookieIdx, visitAt, result>>

\* variant: a failed send is tried again
SingleSendFailRetries(e, r) ==
    /\ pc = "s_sending"
    /\ pc' = "s_send"
    /\ serr' = SendFastHTTPRequest(e).err
    /\ IncHTTP(SendFastHTTPRequest(e).status)
    /\ resp' = r
    /\ strace' = Append(strace, "returned:error")
    /\ UNCHANGED <<ret, parentCancelled, ownCancelled, iter, cfg, bo, wr, hist,
                   client, logs, pool, released, misuse,
                   direct, clock, headers, cookies, cookieIdx, visitAt, result>>

\* variant: a failed send is returned as the job's error
SingleSendFailReturnsErr(e, r) ==
    /\ pc = "s_sending"
    /\ pc' = "done"
    /\ ret' = "send_error"
    /\ ownCancelled' = TRUE
    /\ serr' = SendFastHTTPRequest(e).err
    /\ IncHTTP(SendFastHTTPRequest(e).status)
    /\ resp' = r
    /\ strace' = Append(strace, "returned:error")
    /\ Release({"req", "resp"})
    /\ UNCHANGED <<parentCancelled, iter, cfg, bo, wr, hist,
                   client, logs, misuse,
                   direct, clock, headers, cookies, cookieIdx, visitAt, result>>

\* line 79: the send returned the error e, leaving resp as r; the delivered
\* write is skipped
SingleSendFail(e, r) ==
    /\ pc = "s_sending"
    /\ pc' = "s_headers"
    /\ serr' = SendFastHTTPRequest(e).err
    /\ IncHTTP(SendFastHTTPRequest(e).status)
    /\ resp' = r
    /\ strace' = Append(strace, "returned:error")
    /\ UNCHANGED <<ret, parentCancelled, ownCancelled, iter, cfg, bo, wr, hist,
                   client, logs, pool, released, misuse,
                   direct, clock, headers, cookies, cookieIdx, visitAt, result>>

\* line 80: the payload size is written to the ProcessedTraffic metric
SingleWriteProcessed ==
    /\ pc = "s_processed"
    /\ pc' = "s_headers"
    /\ direct' = [direct EXCEPT !["ProcessedTraffic"] = @ + dataSize]
    /\ strace' = Append(strace, "write:ProcessedTraffic")
    /\ UNCHANGED <<ret, parentCancelled, ownCancelled, iter, cfg, bo, wr, hist, eff,
                   serr, resp, clock, headers, cookies, cookieIdx, visitAt, result>>

\* lines 83-85: the headers map is loaded from the response
SingleLoadHeaders ==
    /\ pc = "s_headers"
    /\ pc' = "s_cookies"
    /\ UseResp
    /\ headers' = VisitAll(<<>>, resp.headers)
    /\ UNCHANGED <<ret, parentCancelled, ownCancelled, iter, cfg, bo, wr, hist,
                   client, logs, httpStat, pool, released,
                   direct, strace, serr, resp, clock, cookies, cookieIdx, visitAt, result>>

\* time passes while the cookies are walked
ClockTick ==
    /\ pc = "s_cookies"
    /\ clock < MaxClock
    /\ clock' = clock + 1
    /\ UNCHANGED <<ctl, cfg, bo, wr, hist, eff,
                   direct, strace, serr, resp, headers, cookies, cookieIdx, visitAt, result>>

\* lines 86, 105-122: VisitAllCookie hands the next cookie to the callback
\* of cookieLoaderFunc, which reads time.Now()
SingleLoadCookie ==
    /\ pc = "s_cookies"
    /\ cookieIdx < Len(resp.cookies)
    /\ LET c == resp.cookies[cookieIdx + 1] IN
         /\ cookies' = IF CookieKept(c, clock)
                       THEN MapSet(cookies, c.key, c.value) ELSE cookies
         /\ logs' = IF c.parses /\ ~CookieKept(c, clock)
                    THEN logs \cup {CookieExpiredRecord} ELSE logs
    /\ cookieIdx' = cookieIdx + 1
    /\ visitAt' = Append(visitAt, clock)
    /\ UseResp
    /\ UNCHANGED <<ctl, cfg, bo, wr, hist,
                   client, httpStat, pool, released,
                   direct, strace, serr, resp, clock, headers, result>>

\* lines 88-97: the snapshot and the send's error are returned with a nil
\* error; the deferred releases and cancel() run
SingleReturn ==
    /\ pc = "s_cookies"
    /\ cookieIdx = Len(resp.cookies)
    /\ pc' = "done"
    /\ ret' = "nil"
    /\ ownCancelled' = TRUE
    /\ result' = [response |-> [body |-> resp.body,
                                status_code |-> resp.status,
                                headers |-> headers,
                                cookies |-> cookies],
                  error |-> serr]
    /\ Release({"req", "resp"})
    /\ UNCHANGED <<parentCancelled, iter, cfg, bo, wr, hist,
                   client, logs, httpStat, misuse,
                   direct, strace, serr, resp, clock, headers, cookies, cookieIdx, visitAt>>

\* every step of singleRequestJob
Single ==
    \/ SingleConfigFail \/ SingleTemplateFail \/ SinglePrepare
    \/ (\E n \in PayloadSizes : SingleInitRequest(n))
    \/ SingleSendStart
    \/ (\E r \in Responses : SingleSendOk(r))
    \/ (\E e \in SendErrors, r \in Responses \cup {EmptyResponse} : SingleSendFail(e, r))
    \/ SingleWriteProcessed \/ SingleLoadHeaders \/ SingleLoadCookie \/ SingleReturn

Next ==
    \/ Cancel
    \/ ConfigFail
    \/ Initialize
    \/ NextTrue
    \/ NextFalse
    \/ \E n \in PayloadSizes : Materialize(n)
    \/ TemplateFail
    \/ AddAttempted
    \/ SendStart
    \/ SendOk
    \/ SendFail
    \/ SleepElapsed
    \/ SleepInterrupted
    \/ AddDelivered
    \/ ResetBackoff
    \/ \E s \in Streams : WriterTick(s)
    \/ \E s \in Streams : WriterStop(s)
    \/ SingleConfigFail
    \/ SingleTemplateFail
    \/ SinglePrepare
    \/ \E n \in PayloadSizes : SingleInitRequest(n)
    \/ SingleSendStart
    \/ \E r \in Responses : SingleSendOk(r)
    \/ \E e \in SendErrors, r \in Responses \cup {EmptyResponse} : SingleSendFail(e, r)
    \/ SingleWriteProcessed
    \/ SingleLoadHeaders
    \/ ClockTick
    \/ SingleLoadCookie
    \/ SingleReturn

Spec == Init /\ [][Next]_vars

\* the loop process: every step of fastHTTPJob
Loop ==
    \/ ConfigFail \/ Initialize \/ NextTrue \/ NextFalse
    \/ (\E n \in PayloadSizes : Materialize(n)) \/ TemplateFail
    \/ AddAttempted \/ SendStart \/ SendOk \/ SendFail
    \/ SleepElapsed \/ SleepInterrupted \/ AddDelivered \/ ResetBackoff

\* the goroutines are scheduled fairly, an in-flight send returns, the
\* sleep timer fires and a writer's select sees ctx.Done()
FairSpec ==
    /\ Spec
    /\ WF_vars(Loop \/ Single)
    /\ \A s \in Streams : WF_vars(WriterStop(s))

\* ------------------------------------------------------ property helpers
\* iterations whose send returned success
OkIters == {i \in 1..Len(sent) : sent[i] = "ok"}

\* number of failed sends at the end of the outcome sequence o
RECURSIVE TrailingFails(_)
TrailingFails(o) == IF o = <<>> \/ o[Len(o)] = "ok" THEN 0
                    ELSE 1 + TrailingFails(SubSeq(o, 1, Len(o) - 1))

\* the controller's timeout after the outcome sequence o
RECURSIVE TimeoutAfter(_, _)
TimeoutAfter(c, o) ==
    IF o = <<>> THEN c.min
    ELSE IF o[Len(o)] = "ok" THEN Reset(c)
    ELSE Increment(c, TimeoutAfter(c, SubSeq(o, 1, Len(o) - 1)))

Started == backoffCfg # Nil

\* ------------------------------------------------------------------- C1
\* C1: in every iteration the payload size is added to the attempted
\* stream before the send is invoked (a send that was invoked has its
\* iteration's attempted add behind it), and the delivered add happens only
\* for an iteration whose send has returned success.
AttemptedBeforeSendDeliveredAfterSuccess ==
    /\ sendsStarted <= attemptAdds
    /\ pc = "sending" => (attemptAdds = iter /\ sendsStarted = iter /\ Len(sent) = iter - 1)
    /\ \A i \in deliveredIters : i <= Len(sent) /\ sent[i] = "ok"
    /\ pc = "deliver" => (Len(sent) = iter /\ sent[iter] = "ok")

\* a run with a failed send behind it, a delivered add done and a send in flight
WitnessC1 ==
    /\ pc = "sending"
    /\ deliveredIters # {}
    /\ \E i \in 1..Len(sent) : sent[i] = "fail"

\* ------------------------------------------------------------------- C2
\* C2: after K iterations reached the send step, the total added to the
\* attempted stream is the sum of the K materialized payload sizes,
\* whatever the sends returned.
AttemptedTotalIsSumOfSizes ==
    /\ pc # "add" => (attemptAdds = materialized /\ added["Traffic"] = sizeSum)
    /\ pc = "add" => (attemptAdds = materialized - 1
                        /\ added["Traffic"] = sizeSum - dataSize)
    /\ pc \notin {"add", "send"} => sendsStarted = materialized

\* three iterations reached the send step, with both outcomes among them
WitnessC2 ==
    /\ attemptAdds = 3
    /\ "ok" \in {sent[i] : i \in 1..Len(sent)}
    /\ "fail" \in {sent[i] : i \in 1..Len(sent)}

\* ------------------------------------------------------------------- C3
\* C3: the total added to the delivered stream is the sum of the payload
\* sizes of the iterations whose send succeeded (all of them once the
\* iteration's accounting step has run), it never exceeds the attempted
\* total, and a step that adds to one stream leaves the other unchanged.
DeliveredState ==
    /\ deliveredIters \subseteq OkIters
    /\ pc # "deliver" => (deliveredIters = OkIters /\ added["ProcessedTraffic"] = okSum)
    /\ pc = "deliver" => (deliveredIters = OkIters \ {iter}
                            /\ added["ProcessedTraffic"] = okSum - dataSize)
    /\ added["ProcessedTraffic"] <= added["Traffic"]

StreamsDistinct ==
    /\ added'["Traffic"] # added["Traffic"]
         => added'["ProcessedTraffic"] = added["ProcessedTraffic"]
    /\ added'["ProcessedTraffic"] # added["ProcessedTraffic"]
         => added'["Traffic"] = added["Traffic"]

DeliveredTotalIsSumOfSucceeded == [] DeliveredState /\ [][StreamsDistinct]_vars

\* one send succeeded, one failed, and the delivered total is below the attempted one
WitnessC3 ==
    /\ pc = "next"
    /\ OkIters # {}
    /\ OkIters # 1..Len(sent)
    /\ added["ProcessedTraffic"] > 0
    /\ added["ProcessedTraffic"] < added["Traffic"]

\* ------------------------------------------------------------------- C4
\* C4: over a run of consecutive failed sends the waits slept are
\* non-decreasing and never exceed the configured maximum (one wait per
\* failure), and one successful send resets the backoff to the configured
\* minimum at once.
BackoffMonotoneBoundedReset ==
    /\ \A k \in 1..Len(runWaits) :
          /\ runWaits[k] <= backoffCfg.max
          /\ k > 1 => runWaits[k - 1] <= runWaits[k]
    /\ pc \notin {"deliver", "reset"} => Len(runWaits) = TrailingFails(sent)
    /\ (pc \in {"next", "template", "add", "send", "sending"}
          /\ sent # <<>> /\ sent[Len(sent)] = "ok")
         => (timeout = backoffCfg.min /\ runWaits = <<>>)

\* a success right after a run of failures that reached the maximum
WitnessC4 ==
    /\ pc = "next"
    /\ Len(sent) >= 3
    /\ sent[Len(sent)] = "ok"
    /\ sent[Len(sent) - 1] = "fail"
    /\ sent[Len(sent) - 2] = "fail"
    /\ backoffCfg = TightBackoff

\* ------------------------------------------------------------------- C5
\* C5 as stated: with minimum 100, maximum 3200 and factor 2 the waits after
\* the first, second and third consecutive failed sends are 100, 200, 400.
ScenarioWaitsAsStated ==
    backoffCfg = ScenarioBackoff =>
        /\ Len(runWaits) >= 1 => runWaits[1] = 100
        /\ Len(runWaits) >= 2 => runWaits[2] = 200
        /\ Len(runWaits) >= 3 => runWaits[3] = 400

\* C5 amended: with minimum 100, maximum 3200 and factor 2 the waits after
\* the first, second and third consecutive failed sends are 200, 400, 800
\* (the controller is incremented before its timeout is read), and after a
\* following successful send the controller's timeout is 100 again.
ScenarioWaits ==
    backoffCfg = ScenarioBackoff =>
        /\ Len(runWaits) >= 1 => runWaits[1] = 200
        /\ Len(runWaits) >= 2 => runWaits[2] = 400
        /\ Len(runWaits) >= 3 => runWaits[3] = 800
        /\ (pc = "next" /\ sent # <<>> /\ sent[Len(sent)] = "ok") => timeout = 100

\* three failed sends and then a successful one under the scenario's settings
WitnessC5 ==
    /\ backoffCfg = ScenarioBackoff
    /\ sent = <<"fail", "fail", "fail", "ok">>
    /\ pc = "next"

\* the third consecutive failure's sleep under the scenario's settings
WitnessC5Sleep ==
    /\ backoffCfg = ScenarioBackoff
    /\ pc = "sleep"
    /\ Len(runWaits) = 3

\* ------------------------------------------------------------------- C6
\* C6 as stated: a loop that started reaches its terminated state only via
\* cancellation.
TerminatedOnlyByCancellation ==
    (pc = "done" /\ Started) => parentCancelled

\* C6 amended: a loop that started terminates by cancellation, by the Next
\* gate's iteration budget running out (both return nil) or by a
\* request-template failure (which returns an error); it is left only from
\* the gate check or the template step, and a failed send is recoverable:
\* the loop sleeps and goes on, there is no error-terminal state for it.
TerminatedByGateOrTemplate ==
    /\ (pc = "done" /\ Started) =>
          \/ ret = "template_error" /\ tplFailed
          \/ ret = "nil" /\ ~tplFailed
                /\ (parentCancelled \/ (jobCount > 0 /\ iter = jobCount))
    /\ (pc = "done" /\ Started /\ ~tplFailed) => Len(sent) = iter
    /\ pc = "sleep" => (ret = "none" /\ sent[Len(sent)] = "fail")

\* the loop ended on its iteration budget, uncancelled, after a failed send
WitnessC6 ==
    /\ pc = "done"
    /\ ret = "nil"
    /\ ~parentCancelled
    /\ "fail" \in {sent[i] : i \in 1..Len(sent)}

\* ------------------------------------------------------------------- C7
\* C7: when request-template evaluation fails on iteration i of a started
\* loop, fastHTTPJob is terminated with a non-nil error, and iteration i
\* has no attempted add, no send and no backoff change: the counts and the
\* controller's timeout are those left by the i-1 earlier iterations.
TemplateFailureAborts ==
    tplFailed =>
        /\ pc = "done"
        /\ ret = "template_error"
        /\ materialized = iter - 1
        /\ attemptAdds = iter - 1
        /\ sendsStarted = iter - 1
        /\ Len(sent) = iter - 1
        /\ added["Traffic"] = sizeSum
        /\ timeout = TimeoutAfter(backoffCfg, sent)
        /\ Len(runWaits) = TrailingFails(sent)

\* the template failed on the third iteration or later, after a succeeding
\* and a failing one
WitnessC7 ==
    /\ tplFailed
    /\ iter >= 3
    /\ "ok" \in {sent[i] : i \in 1..Len(sent)}
    /\ "fail" \in {sent[i] : i \in 1..Len(sent)}

\* ------------------------------------------------------------------- C8
\* C8: a failed send never ends the loop and is never the returned error:
\* the only errors returned are configuration and template errors, a loop
\* that ends at the gate (cancellation or budget) returns nil however many
\* sends failed, and a failed send leads to the sleep and from there back
\* to the gate.
SendFailureState ==
    /\ ret \in {"none", "nil", "config_error", "template_error"}
    /\ job = "fast" => (ret = "template_error" <=> tplFailed)
    /\ ret = "config_error" => (~Started /\ sent = <<>>)
    /\ (pc = "done" /\ Started /\ ~tplFailed) => ret = "nil"
    /\ pc \in {"sending", "sleep"} => ret = "none"

SendFailureStep ==
    /\ (pc = "sending" /\ pc' # pc) => pc' \in {"deliver", "sleep"}
    /\ (pc = "sending" /\ pc' = "sleep") => sent' = Append(sent, "fail")
    /\ (pc = "sleep" /\ pc' # pc) => pc' = "next"

SendFailureNeverAborts == [] SendFailureState /\ [][SendFailureStep]_vars

\* every send failed and the loop, cancelled, returned nil
WitnessC8 ==
    /\ pc = "done"
    /\ ret = "nil"
    /\ parentCancelled
    /\ Len(sent) >= 2
    /\ \A i \in 1..Len(sent) : sent[i] = "fail"

\* ------------------------------------------------------------------- C9
\* C9: once the context is done while the loop is in its backoff sleep, the
\* loop only moves from the sleep to the gate and from the gate to its end:
\* no further iteration is admitted, no template is evaluated, no
\* attempted add and no send happen.
NoIterationAfterCancelledSleep ==
    [][(CtxDone /\ pc \in {"sleep", "next", "done"}) =>
          /\ pc' \in {"sleep", "next", "done"}
          /\ pc = "next" => pc' \in {"next", "done"}
          /\ pc = "done" => pc' = "done"
          /\ UNCHANGED <<iter, materialized, attemptAdds, sendsStarted, sent, tplFailed, added>>]_vars

\* the loop, with no iteration budget, ended by cancellation right after a
\* backoff sleep
WitnessC9 ==
    /\ pc = "done"
    /\ parentCancelled
    /\ jobCount = 0
    /\ iter < MaxIter
    /\ runWaits # <<>>

\* ------------------------------------------------------------------ C10
\* C10: once the caller's cancellation token has fired, the loop and both
\* traffic writers eventually stop (fair scheduling, the in-flight send
\* returns): none of them stays in the backoff sleep or the timer tick.
AllStopAfterCancel ==
    parentCancelled ~> (pc = "done" /\ \A s \in Streams : writer[s] # "running")

\* cancelled, the loop returned and both writers that were started stopped
WitnessC10 ==
    /\ parentCancelled
    /\ pc = "done"
    /\ Started
    /\ \A s \in Streams : writer[s] = "stopped"

\* ------------------------------------------------------------------ C11
\* values that identify the target
TargetFields == {"path", "args"}

\* C11: in the encrypted context no record of the start-up message, the
\* single-request message or the send-failure record holds the request path
\* or the job args; in the clear a send-failure record holds at most the
\* method and the host.
NoTargetDetailInLogs ==
    /\ isInEncryptedContext =>
          \A r \in logs :
             r.site \in {"attacking", "single_request", "send_error"}
                => r.fields \cap TargetFields = {}
    /\ ~isInEncryptedContext =>
          \A r \in logs : r.site = "send_error" => r.fields \subseteq {"method", "host"}

\* ------------------------------------------------------------------ C12
\* the snapshot singleRequestJob builds from the response object
Snapshot == [body |-> resp.body, status_code |-> resp.status,
             headers |-> headers, cookies |-> cookies]

\* C12: once the single send has returned, singleRequestJob ends with a
\* nil error and a result that holds the response snapshot and, in its
\* "error" field, the send's error: none exactly when the send succeeded.
SingleNeverFailsOnExchange ==
    (job = "single" /\ pc = "done" /\ "send" \in {strace[i] : i \in 1..Len(strace)}) =>
        /\ ret = "nil"
        /\ result # Nil
        /\ result.response = Snapshot
        /\ result.error = "nil" <=> strace[Len(strace)] # "returned:error"
        /\ result.error \in SendErrors <=> strace[Len(strace)] = "returned:error"
        /\ result.error = "nil" <=> httpStat["success"] = 1

\* the single send failed and the job returned
WitnessC12 ==
    /\ job = "single"
    /\ pc = "done"
    /\ result # Nil
    /\ result.error = "timeout"
    /\ result.response.status_code = 404

\* ------------------------------------------------------------------ C13
\* the header lines of the raw response, as key/value pairs
RawHeaderPairs == {resp.headers[i] : i \in 1..Len(resp.headers)}

\* the entries of a map, as key/value pairs
MapPairs(m) == {<<k, m[k]>> : k \in DOMAIN m}

\* the value of the last header line with key k
LastValue(hs, k) ==
    LET I == {i \in 1..Len(hs) : hs[i][1] = k}
    IN hs[CHOOSE i \in I : \A j \in I : j <= i][2]

\* the cookies of the raw response that parse and whose expiry is unlimited
\* or not before the instant t(i) read for cookie i
LiveCookies(t(_)) ==
    {i \in 1..Len(resp.cookies) :
        /\ resp.cookies[i].parses
        /\ \/ resp.cookies[i].expire = CookieExpireUnlimited
           \/ resp.cookies[i].expire >= t(i)}

SnapshotTime(i) == clock
VisitTime(i) == visitAt[i]

SingleSucceeded ==
    /\ job = "single"
    /\ pc = "done"
    /\ result # Nil
    /\ result.error = "nil"

\* C13 as stated: after a successful exchange body, status code and headers
\* of the snapshot equal those of the raw response, and the cookie map holds
\* exactly the cookies that parse and whose expiry is unlimited or not
\* earlier than the snapshot time.
SnapshotEqualsRawResponse ==
    SingleSucceeded =>
        /\ ret = "nil"
        /\ result.response.body = resp.body
        /\ result.response.status_code = resp.status
        /\ MapPairs(result.response.headers) = RawHeaderPairs
        /\ MapPairs(result.response.cookies) =
              {<<resp.cookies[i].key, resp.cookies[i].value>> : i \in LiveCookies(SnapshotTime)}

\* C13 amended: after a successful exchange body and status code of the
\* snapshot equal those of the raw response; the headers map holds one entry
\* per header key of the raw response, with the value of the last line of
\* that key; the cookie map holds exactly the cookies that parse and whose
\* expiry is unlimited or not earlier than the clock reading taken when
\* that cookie was loaded; a dropped cookie is no error.
SnapshotOfRawResponse ==
    SingleSucceeded =>
        /\ ret = "nil"
        /\ result.response.body = resp.body
        /\ result.response.status_code = resp.status
        /\ DOMAIN result.response.headers = {p[1] : p \in RawHeaderPairs}
        /\ \A k \in DOMAIN result.response.headers :
              result.response.headers[k] = LastValue(resp.headers, k)
        /\ Len(visitAt) = Len(resp.cookies)
        /\ MapPairs(result.response.cookies) =
              {<<resp.cookies[i].key, resp.cookies[i].value>> : i \in LiveCookies(VisitTime)}

\* a successful exchange whose response repeats a header key, with one
\* cookie kept at the very instant of its expiry
WitnessC13 ==
    /\ SingleSucceeded
    /\ Len(resp.headers) > Cardinality(DOMAIN result.response.headers)
    /\ \E i \in 1..Len(resp.cookies) :
          /\ resp.cookies[i].expire = visitAt[i]
          /\ resp.cookies[i].key \in DOMAIN result.response.cookies

\* a successful exchange with a cookie dropped as expired
WitnessC13Expired ==
    /\ SingleSucceeded
    /\ CookieExpiredRecord \in logs

\* ------------------------------------------------------------------ C14
\* every byte added is either pending or flushed, once
WriterConservation == \A s \in Streams : added[s] = pending[s] + flushed[s]

\* the loop's Add calls never wait for the writer
AddNeverBlocks ==
    /\ pc = "add" => ENABLED AddAttempted
    /\ pc = "deliver" => ENABLED AddDelivered

\* the total handed to the sink never goes down
FlushedMonotone == \A s \in Streams : flushed'[s] >= flushed[s]

SleepState ==
    /\ pc = "sleep" =>
          /\ sent # <<>>
          /\ sent[Len(sent)] = "fail"
          /\ timeout = TimeoutAfter(backoffCfg, sent)
          /\ runWaits # <<>>
          /\ runWaits[Len(runWaits)] = GetTimeout(timeout)
    /\ pc \in {"deliver", "reset"} => sent # <<>> /\ sent[Len(sent)] = "ok"

SleepStep ==
    /\ (pc # "sleep" /\ pc' = "sleep") =>
          /\ pc = "sending"
          /\ sent' = Append(sent, "fail")
    /\ sent' # sent =>
          IF sent' = Append(sent, "fail")
          THEN /\ pc' = "sleep"
               /\ timeout' = Increment(backoffCfg, timeout)
               /\ runWaits' = Append(runWaits, GetTimeout(timeout'))
          ELSE /\ sent' = Append(sent, "ok")
               /\ pc' = "deliver"
               /\ timeout' = timeout
               /\ runWaits' = runWaits
    /\ (pc = "sleep" /\ pc' # "sleep") =>
          /\ pc' = "next"
          /\ timeout' = timeout
          /\ runWaits' = runWaits
    /\ (pc = "deliver" /\ pc' # "deliver") => pc' = "reset"
    /\ (pc = "reset" /\ pc' # "reset") => pc' = "next"
    /\ (job = "fast" /\ pc' = "next" /\ pc # "next") => pc \in {"start", "sleep", "reset"}

\* C15: the loop enters the sleep only from a failed send, with the backoff
\* incremented once and the new timeout as the wait, and leaves it only for
\* the gate check; after a successful send it reaches the gate check through
\* the delivered add and the reset, never through the sleep.
SleepOnlyAfterFailure == []SleepState /\ [][SleepStep]_vars

\* a success, then a failure whose sleep ended at the gate
WitnessC15 ==
    /\ pc = "next"
    /\ Len(sent) >= 2
    /\ sent[1] = "ok"
    /\ sent[Len(sent)] = "fail"
    /\ runWaits # <<>>

\* ------------------------------------------------------------------ C16
\* C16: a job that returned the configuration error returned no data and
\* had no effect: no client, no writer started, no pooled object acquired,
\* no traffic recorded, no send, no iteration.
ConfigErrorBeforeAnyEffect ==
    ret = "config_error" =>
        /\ pc = "done"
        /\ result = Nil
        /\ ~client
        /\ backoffCfg = Nil
        /\ \A s \in Streams :
              /\ writer[s] = "idle"
              /\ added[s] = 0
              /\ flushed[s] = 0
              /\ direct[s] = 0
        /\ \A o \in Pooled : pool[o] = "none" /\ released[o] = 0
        /\ iter = 0
        /\ materialized = 0
        /\ sendsStarted = 0
        /\ strace = <<>>
        /\ httpStat = [st \in {"success", "fail"} |-> 0]
        /\ logs = {}

\* fastHTTPJob returned the configuration error
WitnessC16 ==
    /\ job = "fast"
    /\ pc = "done"
    /\ ret = "config_error"

\* singleRequestJob returned the configuration error
WitnessC16Single ==
    /\ job = "single"
    /\ pc = "done"
    /\ ret = "config_error"

\* ------------------------------------------------------------------ C17
\* C17: a pooled object is released at most once, is released by the time
\* the job has returned if it was acquired, is not released while the job
\* runs, and is never used unless acquired and not yet released.
PooledReleasedOnce ==
    /\ ~misuse
    /\ \A o \in Pooled :
          /\ released[o] <= 1
          /\ pool[o] = "released" <=> released[o] = 1
          /\ pc = "done" => pool[o] # "acquired"
          /\ pc # "done" => released[o] = 0
    /\ (pc = "done" /\ client) =>
          pool["req"] = "released" /\ (job = "single" => pool["resp"] = "released")

\* fastHTTPJob returned early on a template error with its request released
WitnessC17 ==
    /\ job = "fast"
    /\ pc = "done"
    /\ tplFailed
    /\ pool["req"] = "released"
    /\ released["req"] = 1

\* ------------------------------------------------------------------ C18
NoWriterRunning == \A s \in Streams : writer[s] # "running"

ReturnedAfterStart == job = "fast" /\ pc = "done" /\ Started

\* C18: when fastHTTPJob has returned after starting its writers, its own
\* derived ctx is cancelled, and from then on both writers stop.
WritersStopOnReturn ==
    /\ [](ReturnedAfterStart => ownCancelled)
    /\ (ReturnedAfterStart ~> NoWriterRunning)

\* the gate closed on the request budget, the caller never cancelled, and
\* both writers stopped
WitnessC18 ==
    /\ ReturnedAfterStart
    /\ ret = "nil"
    /\ ~parentCancelled
    /\ \A s \in Streams : writer[s] = "stopped"

\* ------------------------------------------------------------------ C19
\* number of entries of the sequence q that equal x
Count(q, x) == Cardinality({i \in 1..Len(q) : q[i] = x})

\* the sends that have returned, by outcome
SendsReturned(outcome) ==
    IF job = "fast"
    THEN Count(sent, IF outcome = "success" THEN "ok" ELSE "fail")
    ELSE Count(strace, IF outcome = "success" THEN "returned:nil" ELSE "returned:error")

OutcomeState ==
    /\ \A st \in {"success", "fail"} : httpStat[st] = SendsReturned(st)
    /\ job = "fast" =>
          httpStat["success"] + httpStat["fail"]
              = sendsStarted - (IF pc = "sending" THEN 1 ELSE 0)
    /\ \A e \in SendErrors \cup {"nil"} : SendFastHTTPRequest(e).err = e
    /\ (job = "single" /\ serr # "none") =>
          /\ serr = "nil" <=> httpStat = [success |-> 1, fail |-> 0]
          /\ serr \in SendErrors <=> httpStat = [success |-> 0, fail |-> 1]

OutcomeStep ==
    httpStat' # httpStat =>
        /\ pc \in {"sending", "s_sending"}
        /\ \E st \in {"success", "fail"} : httpStat' = [httpStat EXCEPT ![st] = @ + 1]

\* C19: every send that returns bumps exactly one outcome counter, the
\* fail counter exactly when it returned an error, which is handed back
\* unchanged; the two counters add up to the sends that have returned.
OneOutcomePerSend == []OutcomeState /\ [][OutcomeStep]_vars

\* the loop counted a success and a failure
WitnessC19 ==
    /\ job = "fast"
    /\ httpStat["success"] >= 1
    /\ httpStat["fail"] >= 1

\* ------------------------------------------------------------------ C20
IsPrefix(a, b) == Len(a) <= Len(b) /\ a = SubSeq(b, 1, Len(a))

PassDelivered == <<"write:Traffic", "send", "returned:nil", "write:ProcessedTraffic">>
PassFailed == <<"write:Traffic", "send", "returned:error">>

\* C20: singleRequestJob writes the attempted size once and before its one
\* send, writes the delivered size once and only after the send succeeded,
\* sends once, and leaves the backoff, the sleep and the writers alone.
SinglePassOnly ==
    job = "single" =>
        /\ IsPrefix(strace, PassDelivered) \/ IsPrefix(strace, PassFailed)
        /\ (pc = "done" /\ ret = "nil") => strace \in {PassDelivered, PassFailed}
        /\ direct["Traffic"] = (IF strace = <<>> THEN 0 ELSE dataSize)
        /\ direct["ProcessedTraffic"] = (IF strace = PassDelivered THEN dataSize ELSE 0)
        /\ backoffCfg = Nil
        /\ timeout = 0
        /\ runWaits = <<>>
        /\ pc # "sleep"
        /\ iter = 0
        /\ \A s \in Streams : writer[s] = "idle" /\ added[s] = 0

\* the single exchange succeeded and both sizes were written
WitnessC20 ==
    /\ job = "single"
    /\ pc = "done"
    /\ strace = PassDelivered
    /\ direct["ProcessedTraffic"] = dataSize
    /\ dataSize > 0

====
